---- MODULE Spec2Model ----
(***************************************************************************)
(* Model of the diagnostic estimation engine of src/lib/mcp.ts             *)
(* (deriveClinicMetrics, generateMockBottlenecks, getMockDiagnosticResult),*)
(* of the POST handler of src/app/api/diagnostic/route.ts that calls      *)
(* the external MCP service (runDiagnostic) and falls back to the engine,  *)
(* and of the deeper-analysis submit handler of the dashboard component    *)
(* (src/components/diagnostic-dashboard.tsx).                              *)
(*                                                                         *)
(* JavaScript numbers are modelled as extended rationals: a finite value   *)
(* n/d in lowest terms, +Infinity, -Infinity or NaN.  Arithmetic follows   *)
(* IEEE 754 for the non-finite cases (x/0, Infinity - Infinity,            *)
(* Infinity * 0, comparisons with NaN) and is exact for finite values.     *)
(*                                                                         *)
(* Two things are left to the platform the code runs on, and are chosen    *)
(* once per run: the algorithm of Array.prototype.sort (sortImpl), which   *)
(* decides the order when NaN impacts make the comparator inconsistent,    *)
(* and the side on which the double evaluation of                          *)
(* utilizationGap * capacityTreatments * atv falls when its exact value is *)
(* a tie k + 1/2 (fpTieDown).  Every other Math.round operand of the engine*)
(* is a product of integers and two-digit decimal constants, which doubles *)
(* evaluate to the exact tie on the inputs of this model; utilizationGap   *)
(* is the difference 0.85 - completed/capacity of two inexact doubles, and *)
(* for completed = 340, capacity = 1173, atv = 250 the double product is   *)
(* 164262.49999999997 where the exact one is 164262.5.                     *)
(***************************************************************************)
EXTENDS Integers, Sequences, FiniteSets, TLC

VARIABLES input, sortImpl, fpTieDown, calls,
          env, body, pc, mcp, result, narrative, response,
          data, deeperOpen, deeperLoading, isDeeperRun, csvFile,
          submitPc, submitRes, toast, submits

\* the state of the POST handler of the API route
hvars == <<env, body, pc, mcp, result, narrative, response>>

\* the state of the DiagnosticDashboard component and of its submit handler
dvars == <<data, deeperOpen, deeperLoading, isDeeperRun, csvFile, submitPc, submitRes, toast, submits>>

\* the engine and the run it is invoked in
evars == <<input, sortImpl, fpTieDown, calls>>

vars == <<input, sortImpl, fpTieDown, calls, env, body, pc, mcp, result, narrative, response,
          data, deeperOpen, deeperLoading, isDeeperRun, csvFile, submitPc, submitRes, toast, submits>>

-----------------------------------------------------------------------------
(* JavaScript number semantics                                             *)

Abs(x) == IF x < 0 THEN -x ELSE x

RECURSIVE Gcd(_, _)
Gcd(a, b) == IF b = 0 THEN a ELSE Gcd(b, a % b)

NaN == [k |-> "nan", n |-> 0, d |-> 0]
PosInf == [k |-> "inf", n |-> 1, d |-> 0]
NegInf == [k |-> "inf", n |-> -1, d |-> 0]

\* the finite number n/d (d # 0), in lowest terms with a positive denominator
Fin(n, d) ==
    LET g == Gcd(Abs(n), Abs(d))
        s == IF d < 0 THEN -1 ELSE 1
    IN  [k |-> "fin", n |-> s * (n \div g), d |-> s * (d \div g)]

Num(n) == [k |-> "fin", n |-> n, d |-> 1]

IsNaN(x) == x.k = "nan"
IsInf(x) == x.k = "inf"
IsFinite(x) == x.k = "fin"
Sign(x) == IF x.n > 0 THEN 1 ELSE IF x.n < 0 THEN -1 ELSE 0
Inf(s) == IF s > 0 THEN PosInf ELSE NegInf

\* x + y
Add(x, y) ==
    IF IsNaN(x) \/ IsNaN(y) THEN NaN
    ELSE IF IsInf(x) /\ IsInf(y) THEN (IF x.n = y.n THEN x ELSE NaN)
    ELSE IF IsInf(x) THEN x
    ELSE IF IsInf(y) THEN y
    ELSE LET g == Gcd(x.d, y.d)
         IN  Fin(x.n * (y.d \div g) + y.n * (x.d \div g), x.d * (y.d \div g))

Neg(x) == IF IsNaN(x) THEN NaN ELSE [x EXCEPT !.n = -x.n]

\* x - y
Sub(x, y) == Add(x, Neg(y))

\* x * y
Mul(x, y) ==
    IF IsNaN(x) \/ IsNaN(y) THEN NaN
    ELSE IF IsInf(x) \/ IsInf(y)
         THEN (IF Sign(x) * Sign(y) = 0 THEN NaN ELSE Inf(Sign(x) * Sign(y)))
    ELSE LET g1 == Gcd(Abs(x.n), y.d)
             g2 == Gcd(Abs(y.n), x.d)
         IN  Fin((x.n \div g1) * (y.n \div g2), (x.d \div g2) * (y.d \div g1))

\* x / y (the divisors of the engine are never -0)
Div(x, y) ==
    IF IsNaN(x) \/ IsNaN(y) THEN NaN
    ELSE IF IsInf(x) /\ IsInf(y) THEN NaN
    ELSE IF IsInf(x) THEN Inf(x.n * (IF y.n < 0 THEN -1 ELSE 1))
    ELSE IF IsInf(y) THEN Num(0)
    ELSE IF y.n = 0 THEN (IF x.n = 0 THEN NaN ELSE Inf(Sign(x)))
    ELSE Mul(x, Fin(y.d, y.n))

\* x < y, x > y, x <= y, x >= y: false as soon as one side is NaN
Lt(x, y) ==
    IF IsNaN(x) \/ IsNaN(y) THEN FALSE
    ELSE IF IsInf(x) THEN x.n < 0 /\ y # x
    ELSE IF IsInf(y) THEN y.n > 0
    ELSE x.n * y.d < y.n * x.d

Gt(x, y) == Lt(y, x)
Le(x, y) == ~IsNaN(x) /\ ~IsNaN(y) /\ ~Lt(y, x)
Ge(x, y) == Le(y, x)

\* Math.min(x, y), Math.max(x, y)
MathMin(x, y) == IF IsNaN(x) \/ IsNaN(y) THEN NaN ELSE IF Lt(y, x) THEN y ELSE x
MathMax(x, y) == IF IsNaN(x) \/ IsNaN(y) THEN NaN ELSE IF Lt(x, y) THEN y ELSE x

\* Math.round(x): the nearest integer, halves towards +Infinity
MathRound(x) ==
    IF ~IsFinite(x) THEN x ELSE Num((2 * x.n + x.d) \div (2 * x.d))

\* x is an integer plus one half
IsTie(x) == IsFinite(x) /\ x.d = 2

\* Math.round(x) for an operand computed with rounding error: on an exact tie
\* the double lies just below it when down is true
MathRoundInexact(x, down) ==
    IF down /\ IsTie(x) THEN Sub(MathRound(x), Num(1)) ELSE MathRound(x)

\* Math.ceil(x)
MathCeil(x) ==
    IF ~IsFinite(x) THEN x ELSE Num(-((-x.n) \div x.d))

-----------------------------------------------------------------------------
(* Optional values: <<>> is undefined, <<v>> is the value v                *)

Undefined == <<>>
Some(v) == <<v>>

\* v ?? dflt, for an optional integer v and a number dflt
Nullish(v, dflt) == IF v = Undefined THEN dflt ELSE Num(v[1])

-----------------------------------------------------------------------------
(* Constants of the engine                                                 *)

WORKING_DAYS == 22
WEEKS_PER_MONTH == Fin(433, 100)
STAFF_HOURS_PER_DAY == 8
AVG_TREATMENT_DURATION_HRS == Fin(3, 4)
BEST_IN_CLASS_UTILIZATION == Fin(85, 100)
PROVIDER_RATIO == Fin(6, 10)
ADMIN_TIME_RATIO == Fin(35, 100)
DEFAULT_HOURLY_COST == 30

\* deeper?.staff_hourly_cost ?? DEFAULT_HOURLY_COST
StaffHourly(deeper) ==
    IF deeper = Undefined THEN Num(DEFAULT_HOURLY_COST)
    ELSE Nullish(deeper[1].staff_hourly_cost, Num(DEFAULT_HOURLY_COST))

\* Math.round(monthly / atv)
TreatmentsCompleted(monthly, atv) == MathRound(Div(monthly, atv))

\* Math.round(providerHoursPerMonth / AVG_TREATMENT_DURATION_HRS)
CapacityTreatments(providerHoursPerMonth) ==
    MathRound(Div(providerHoursPerMonth, AVG_TREATMENT_DURATION_HRS))

\* the utilization ratio without the cap of 0.99
CurrentUtilizationUncapped(treatmentsCompleted, capacityTreatments) ==
    Div(treatmentsCompleted, capacityTreatments)

\* Math.min(0.99, treatmentsCompleted / capacityTreatments)
CurrentUtilization(treatmentsCompleted, capacityTreatments) ==
    MathMin(Fin(99, 100), Div(treatmentsCompleted, capacityTreatments))

\* the tiers with thresholds that belong to the higher tier
GapHoursInclusive(noShow) ==
    IF Ge(noShow, Fin(8, 100)) THEN Fin(18, 10)
    ELSE IF Ge(noShow, Fin(4, 100)) THEN Fin(12, 10)
    ELSE Fin(8, 10)

\* noShow > 0.08 ? 1.8 : noShow > 0.04 ? 1.2 : 0.8
GapHoursPerProviderPerDay(noShow) ==
    IF Gt(noShow, Fin(8, 100)) THEN Fin(18, 10)
    ELSE IF Gt(noShow, Fin(4, 100)) THEN Fin(12, 10)
    ELSE Fin(8, 10)

deriveClinicMetrics(in, deeper) ==
    LET monthly == Num(in.monthly_revenue)
        atv == in.avg_treatment_value
        staff == Num(in.staff_count)
        noShow == Fin(in.no_show_rate, 100)
        locs == in.number_of_locations
        staffHourly == StaffHourly(deeper)
        treatmentsCompleted == TreatmentsCompleted(monthly, atv)
        treatmentsPerDay == Div(treatmentsCompleted, Num(WORKING_DAYS))
        grossScheduled == MathRound(Div(treatmentsCompleted, Sub(Num(1), noShow)))
        noShowAppointments == Sub(grossScheduled, treatmentsCompleted)
        providers == MathMax(Num(1), MathRound(Mul(staff, PROVIDER_RATIO)))
        providerHoursPerMonth ==
            Mul(Mul(providers, Num(STAFF_HOURS_PER_DAY)), Num(WORKING_DAYS))
        capacityTreatments == CapacityTreatments(providerHoursPerMonth)
        currentUtilization == CurrentUtilization(treatmentsCompleted, capacityTreatments)
        revenuePerProviderHour == Div(monthly, providerHoursPerMonth)
        adminHoursPerWeek == MathRound(Mul(Mul(staff, ADMIN_TIME_RATIO), Num(40)))
        adminHoursPerMonth == MathRound(Mul(adminHoursPerWeek, WEEKS_PER_MONTH))
        gapHoursPerProviderPerDay == GapHoursPerProviderPerDay(noShow)
    IN  [monthly |-> monthly, atv |-> atv, staff |-> staff, noShow |-> noShow,
         locs |-> locs, staffHourly |-> staffHourly,
         treatmentsCompleted |-> treatmentsCompleted,
         treatmentsPerDay |-> treatmentsPerDay,
         grossScheduled |-> grossScheduled,
         noShowAppointments |-> noShowAppointments,
         providers |-> providers,
         providerHoursPerMonth |-> providerHoursPerMonth,
         capacityTreatments |-> capacityTreatments,
         currentUtilization |-> currentUtilization,
         revenuePerProviderHour |-> revenuePerProviderHour,
         adminHoursPerWeek |-> adminHoursPerWeek,
         adminHoursPerMonth |-> adminHoursPerMonth,
         gapHoursPerProviderPerDay |-> gapHoursPerProviderPerDay]

-----------------------------------------------------------------------------
(* generateMockBottlenecks                                                 *)

\* deeper mode decided by the presence of a field rather than of the record
IsDeeperSomeField(deeper) ==
    /\ deeper # Undefined
    /\ \E f \in DOMAIN deeper[1] : deeper[1][f] # Undefined

\* isDeeper = !!deeper: an object is truthy, also one without any field
IsDeeper(deeper) == deeper # Undefined

\* the two interval multipliers exchanged
CiMultSwapped(isDeeper) == IF isDeeper THEN Fin(12, 100) ELSE Fin(5, 100)

\* ciMult = isDeeper ? 0.05 : 0.12
CiMult(isDeeper) == IF isDeeper THEN Fin(5, 100) ELSE Fin(12, 100)

\* the basic base confidence in both modes
BaseCiBasic(isDeeper) == 85

\* baseCi = isDeeper ? 93 : 85
BaseCi(isDeeper) == IF isDeeper THEN 93 ELSE 85

\* the share of the revenue left as a fraction, not scaled to a percentage
ImpactFraction(impact, monthly) == MathRound(Div(impact, monthly))

\* Math.round((impact / m.monthly) * 100)
ImpactPercent(impact, monthly) == MathRound(Mul(Div(impact, monthly), Num(100)))

\* the sum of base and bonus without the cap of 99
ConfidenceUncapped(baseCi, bonus) == baseCi + bonus

\* Math.min(99, baseCi + bonus)
Confidence(baseCi, bonus) == IF baseCi + bonus > 99 THEN 99 ELSE baseCi + bonus

\* the lower bound with the sign of its factor exchanged
CiLowNegated(impact, mult) == MathRound(Mul(impact, Sub(mult, Num(1))))

\* Math.round(impact * (1 - mult)), Math.round(impact * (1 + mult))
CiLow(impact, mult) == MathRound(Mul(impact, Sub(Num(1), mult)))
CiHigh(impact, mult) == MathRound(Mul(impact, Add(Num(1), mult)))

\* one object literal of the bottleneck list; scale is the factor applied to
\* ciMult (1 where the code uses ciMult itself)
Bottleneck(name, impact, monthly, isDeeper, bonus, scale) ==
    [name |-> name,
     impactDollars |-> impact,
     impactPercent |-> ImpactPercent(impact, monthly),
     confidence |-> Confidence(BaseCi(isDeeper), bonus),
     ciLow |-> CiLow(impact, Mul(CiMult(isDeeper), scale)),
     ciHigh |-> CiHigh(impact, Mul(CiMult(isDeeper), scale))]

\* Math.round(noShowFullLoss * noShowRecovery)
NoShowImpact(m) == MathRound(Mul(Mul(m.noShowAppointments, m.atv), Fin(65, 100)))

\* m.providers * m.gapHoursPerProviderPerDay * WORKING_DAYS
DeadTimeMonthly(m) == Mul(Mul(m.providers, m.gapHoursPerProviderPerDay), Num(WORKING_DAYS))

\* Math.round(deadTimeMonthly * m.revenuePerProviderHour)
DeadTimeRevenueLost(m) == MathRound(Mul(DeadTimeMonthly(m), m.revenuePerProviderHour))

\* Math.round(m.adminHoursPerMonth * m.staffHourly)
AdminCostMonthly(m) == MathRound(Mul(m.adminHoursPerMonth, m.staffHourly))

\* the automatable cost of the admin hours of one week
AdminAutomatableWeekly(m) ==
    MathRound(Mul(MathRound(Mul(m.adminHoursPerWeek, m.staffHourly)), Fin(70, 100)))

\* Math.round(adminCostMonthly * 0.70)
AdminAutomatable(m) == MathRound(Mul(AdminCostMonthly(m), Fin(70, 100)))

\* Math.round(m.treatmentsCompleted * 0.15)
RecoverablePatients(m) == MathRound(Mul(m.treatmentsCompleted, Fin(15, 100)))

\* Math.round(recoverablePatients * m.atv * 0.80)
RecallRevenue(m) == MathRound(Mul(Mul(RecoverablePatients(m), m.atv), Fin(80, 100)))

\* Math.max(0, BEST_IN_CLASS_UTILIZATION - m.currentUtilization)
UtilizationGap(m) == MathMax(Num(0), Sub(BEST_IN_CLASS_UTILIZATION, m.currentUtilization))

\* Math.round(utilizationGap * m.capacityTreatments * m.atv)
UtilizationRevenue(m) ==
    MathRoundInexact(Mul(Mul(UtilizationGap(m), m.capacityTreatments), m.atv), fpTieDown)

\* the utilization bottleneck decided by the gap rather than by its dollars
HasUtilizationBottleneckByGap(m) == Gt(UtilizationGap(m), Num(0))

\* the condition of the push of "Chair Utilization Gap"
HasUtilizationBottleneck(m) == Gt(UtilizationRevenue(m), Num(0))

\* deeper.monthly_marketing_spend ?? m.monthly * 0.08
MarketingSpend(m, deeper) ==
    Nullish(deeper[1].monthly_marketing_spend, Mul(m.monthly, Fin(8, 100)))

\* deeper.current_inventory_value ?? m.monthly * 0.15
InventoryValue(m, deeper) ==
    Nullish(deeper[1].current_inventory_value, Mul(m.monthly, Fin(15, 100)))

\* the marketing bottleneck added whatever the spend is
HasMarketingBottleneckAlways(m, deeper) == Ge(MarketingSpend(m, deeper), Num(0))

\* the condition of the push of "Marketing Spend Blind Spot"
HasMarketingBottleneck(m, deeper) == Gt(MarketingSpend(m, deeper), Num(0))

\* Math.round(deadTimeMonthly * staffHourly)
IdleWageCost(m, deeper) ==
    MathRound(Mul(DeadTimeMonthly(m),
                  Nullish(deeper[1].staff_hourly_cost, Num(DEFAULT_HOURLY_COST))))

\* the upsell revenue from a number of opportunities that is not rounded
MissedUpsellRevenueFractional(m) ==
    LET avgUpsellValue == MathRound(Mul(m.atv, Fin(35, 100)))
        upsellOpportunities == Mul(m.treatmentsCompleted, Fin(45, 100))
    IN  MathRound(Mul(Mul(upsellOpportunities, avgUpsellValue), Fin(30, 100)))

\* Math.round(upsellOpportunities * avgUpsellValue * 0.30)
MissedUpsellRevenue(m) ==
    LET avgUpsellValue == MathRound(Mul(m.atv, Fin(35, 100)))
        upsellOpportunities == MathRound(Mul(m.treatmentsCompleted, Fin(45, 100)))
    IN  MathRound(Mul(Mul(upsellOpportunities, avgUpsellValue), Fin(30, 100)))

\* Math.round(inventoryValue * 0.11)
InventoryWaste(m, deeper) == MathRound(Mul(InventoryValue(m, deeper), Fin(11, 100)))

\* Math.round(marketingSpend * 0.28)
WastedMarketing(m, deeper) == MathRound(Mul(MarketingSpend(m, deeper), Fin(28, 100)))

\* the four bottlenecks of the array literal, in construction order
BaseBottlenecks(m, isDeeper) ==
    << Bottleneck("No-Show Revenue Drain", NoShowImpact(m), m.monthly, isDeeper, 7, Num(1)),
       Bottleneck("Schedule Gap Dead Time", DeadTimeRevenueLost(m), m.monthly, isDeeper, 4, Num(1)),
       Bottleneck("Admin Overhead Burn", AdminAutomatable(m), m.monthly, isDeeper, 3, Num(1)),
       Bottleneck("Dormant Patient Revenue", RecallRevenue(m), m.monthly, isDeeper, 1, Fin(12, 10)) >>

\* the pushed bottleneck under the name of the first one
UtilizationBottlenecksRenamed(m, isDeeper) ==
    IF HasUtilizationBottleneck(m)
    THEN << Bottleneck("No-Show Revenue Drain", UtilizationRevenue(m), m.monthly,
                       isDeeper, 0, Fin(13, 10)) >>
    ELSE << >>

\* if (utilizationRevenue > 0) bottlenecks.push(...)
UtilizationBottlenecks(m, isDeeper) ==
    IF HasUtilizationBottleneck(m)
    THEN << Bottleneck("Chair Utilization Gap", UtilizationRevenue(m), m.monthly,
                       isDeeper, 0, Fin(13, 10)) >>
    ELSE << >>

\* if (isDeeper) { push, push, push, if (marketingSpend > 0) push }
DeeperBottlenecks(m, deeper) ==
    IF ~IsDeeper(deeper) THEN << >>
    ELSE << Bottleneck("Staff Idle Wage Burn", IdleWageCost(m, deeper), m.monthly, TRUE, 5, Num(1)),
            Bottleneck("Missed Treatment Upsell", MissedUpsellRevenue(m), m.monthly, TRUE, 2, Num(1)),
            Bottleneck("Inventory Waste & Carrying Cost", InventoryWaste(m, deeper), m.monthly,
                       TRUE, 1, Fin(11, 10)) >>
         \o (IF HasMarketingBottleneck(m, deeper)
             THEN << Bottleneck("Marketing Spend Blind Spot", WastedMarketing(m, deeper),
                                m.monthly, TRUE, -1, Fin(12, 10)) >>
             ELSE << >>)

\* the list before the sort
UnsortedBottlenecks(m, deeper) ==
    BaseBottlenecks(m, IsDeeper(deeper)) \o UtilizationBottlenecks(m, IsDeeper(deeper))
        \o DeeperBottlenecks(m, deeper)

\* a comparator that also asks for b before a when the impacts are equal
ComesAfterOrEqual(a, b) == Ge(Sub(b.impactDollars, a.impactDollars), Num(0))

\* the comparator (a, b) => b.impactDollars - a.impactDollars asks for b before a:
\* its result is > 0; a NaN result counts as 0
ComesAfter(a, b) == Gt(Sub(b.impactDollars, a.impactDollars), Num(0))

\* Array.prototype.sort is stable; with a comparator that is not a consistent
\* ordering (NaN impacts) the order is left to the engine.  Two stable
\* algorithms stand for the engines: insertion sort and top-down merge sort.
SortImpls == {"insertion", "merge"}

RECURSIVE InsertFrom(_, _, _)
InsertFrom(s, x, k) ==
    IF k > 0 /\ ComesAfter(s[k], x) THEN InsertFrom(s, x, k - 1)
    ELSE SubSeq(s, 1, k) \o <<x>> \o SubSeq(s, k + 1, Len(s))

RECURSIVE InsertionSort(_)
InsertionSort(s) ==
    IF Len(s) <= 1 THEN s
    ELSE LET front == InsertionSort(SubSeq(s, 1, Len(s) - 1))
         IN  InsertFrom(front, s[Len(s)], Len(front))

RECURSIVE Merge(_, _)
Merge(l, r) ==
    IF l = << >> THEN r
    ELSE IF r = << >> THEN l
    ELSE IF ComesAfter(l[1], r[1]) THEN <<r[1]>> \o Merge(l, Tail(r))
    ELSE <<l[1]>> \o Merge(Tail(l), r)

RECURSIVE MergeSort(_)
MergeSort(s) ==
    IF Len(s) <= 1 THEN s
    ELSE LET mid == Len(s) \div 2
         IN  Merge(MergeSort(SubSeq(s, 1, mid)), MergeSort(SubSeq(s, mid + 1, Len(s))))

\* bottlenecks.sort((a, b) => b.impactDollars - a.impactDollars)
SortBottlenecks(s) == IF sortImpl = "insertion" THEN InsertionSort(s) ELSE MergeSort(s)

generateMockBottlenecks(in, deeper) ==
    SortBottlenecks(UnsortedBottlenecks(deriveClinicMetrics(in, deeper), deeper))

-----------------------------------------------------------------------------
(* getMockDiagnosticResult                                                 *)

\* the deeper capture rate used in both modes
CaptureRateFlat(isDeeper) == Fin(72, 100)

\* captureRate = isDeeper ? 0.72 : 0.60
CaptureRate(isDeeper) == IF isDeeper THEN Fin(72, 100) ELSE Fin(60, 100)

\* bottlenecks.reduce((sum, b) => sum + b.impactDollars, 0)
RECURSIVE TotalImpact(_)
TotalImpact(bs) ==
    IF bs = << >> THEN Num(0)
    ELSE Add(TotalImpact(SubSeq(bs, 1, Len(bs) - 1)), bs[Len(bs)].impactDollars)

\* the captured share of the total impact without the rounding to dollars
RecoverableMonthlyUnrounded(bs, isDeeper) == Mul(TotalImpact(bs), CaptureRate(isDeeper))

\* Math.round(totalBottleneckImpactMonthly * captureRate)
RecoverableMonthly(bs, isDeeper) == MathRound(Mul(TotalImpact(bs), CaptureRate(isDeeper)))

\* Math.round((recoverableMonthly / m.monthly) * 1000) / 10
RevenueLift(recoverableMonthly, monthly) ==
    Div(MathRound(Mul(Div(recoverableMonthly, monthly), Num(1000))), Num(10))

\* adminAutomationPct = 0.70 * ADMIN_TIME_RATIO
AdminAutomationPct == Mul(Fin(70, 100), ADMIN_TIME_RATIO)

\* the percentage rounded to a whole number
StaffReductionWhole == MathRound(Mul(AdminAutomationPct, Num(100)))

\* Math.round(adminAutomationPct * 1000) / 10
StaffReduction == Div(MathRound(Mul(AdminAutomationPct, Num(1000))), Num(10))

\* the lower price kept for two locations
PilotValueUpToTwo(locs) == IF locs <= 2 THEN 8000 ELSE 12000

\* pilotValue = m.locs === 1 ? 8000 : 12000
PilotValue(locs) == IF locs = 1 THEN 8000 ELSE 12000

\* Math.max(1, Math.ceil(pilotValue / recoverableMonthly))
PaybackMonths(pilotValue, recoverableMonthly) ==
    MathMax(Num(1), MathCeil(Div(Num(pilotValue), recoverableMonthly)))

\* noShowReduction = isDeeper ? 55 : 42
NoShowReduction(isDeeper) == IF isDeeper THEN 55 ELSE 42

\* Math.round(m.currentUtilization * 100)
UtilizationPercent(m) == MathRound(Mul(m.currentUtilization, Num(100)))

\* the numbers the five hidden-leak sentences are built from
HiddenLeaks(m) ==
    << <<m.noShowAppointments, Mul(m.noShowAppointments, m.atv)>>,
       <<m.adminHoursPerWeek>>,
       <<UtilizationPercent(m)>>,
       <<RecoverablePatients(m)>>,
       <<MathRound(m.revenuePerProviderHour)>> >>

getMockDiagnosticResult(in, deeperData) ==
    LET m == deriveClinicMetrics(in, deeperData)
        isDeeper == IsDeeper(deeperData)
        bottlenecks == generateMockBottlenecks(in, deeperData)
        recoverableMonthly == RecoverableMonthly(bottlenecks, isDeeper)
        revenueLift == RevenueLift(recoverableMonthly, m.monthly)
        staffReduction == StaffReduction
        hoursSavedPerWeek == MathRound(Mul(Mul(m.staff, Num(40)), AdminAutomationPct))
        totalSavings12mo == Mul(recoverableMonthly, Num(12))
        pilotValue == PilotValue(m.locs)
        roiMultiple ==
            Div(MathRound(Mul(Div(totalSavings12mo, Num(pilotValue)), Num(10))), Num(10))
        paybackMonths == PaybackMonths(pilotValue, recoverableMonthly)
    IN  [current_state |->
            [monthly_revenue |-> m.monthly,
             staff_count |-> m.staff,
             no_show_rate |-> in.no_show_rate,
             avg_treatment_value |-> m.atv,
             locations |-> m.locs,
             treatments_per_month |-> m.treatmentsCompleted,
             provider_utilization |-> UtilizationPercent(m),
             admin_hours_per_week |-> m.adminHoursPerWeek],
         hidden_leaks |-> HiddenLeaks(m),
         bottlenecks |-> bottlenecks,
         projection_90_day |->
            [revenue_lift_pct |->
                Div(MathRound(Mul(Mul(revenueLift, Fin(45, 100)), Num(10))), Num(10)),
             staff_hours_saved_per_week |-> hoursSavedPerWeek,
             no_show_reduction_pct |-> NoShowReduction(isDeeper),
             payback_months |-> paybackMonths],
         projection_12_month |->
            [revenue_lift_pct |-> revenueLift,
             total_savings |-> totalSavings12mo,
             staff_reduction_pct |-> staffReduction,
             roi_multiple |-> roiMultiple],
         staff_reduction_pct |-> staffReduction,
         revenue_lift |-> revenueLift,
         total_savings |-> totalSavings12mo,
         recommended_pilot_value |-> pilotValue]

-----------------------------------------------------------------------------
(* The inputs the engine is run on                                         *)

MonthlyRevenues == {1, 598, 85000}
StaffCounts == {1, 5, 8}
NoShowRates == {0, 4, 8, 12, 100}
TreatmentValues == {Num(0), Num(1), Num(50), Num(250)}
LocationCounts == {1, 2}

\* bodySchema of the API route: monthly_revenue >= 1, staff_count >= 1,
\* 0 <= no_show_rate <= 100, avg_treatment_value >= 0, number_of_locations >= 1
ClinicInputs ==
    [monthly_revenue : MonthlyRevenues, staff_count : StaffCounts,
     no_show_rate : NoShowRates, avg_treatment_value : TreatmentValues,
     number_of_locations : LocationCounts]

DeeperInput(cost, marketing, inventory, rows) ==
    [staff_hourly_cost |-> cost, monthly_marketing_spend |-> marketing,
     current_inventory_value |-> inventory, csv_row_count |-> rows]

\* deeperSchema of the API route: every field optional and >= 0
DeeperInputs ==
    { DeeperInput(Undefined, Undefined, Undefined, Undefined),
      DeeperInput(Some(28), Some(6000), Some(12000), Undefined),
      DeeperInput(Some(100), Undefined, Undefined, Some(40)),
      DeeperInput(Some(0), Some(0), Some(0), Undefined) }

\* the second argument of the engine: absent, or a DeeperInput object
DeeperArgs == {Undefined} \cup {Some(d) : d \in DeeperInputs}

\* the inputs on which every division of the engine has a non-zero divisor,
\* and the two degenerate ones: avg_treatment_value = 0 and no_show_rate = 100
RegularInputs ==
    {in \in ClinicInputs : Gt(in.avg_treatment_value, Num(0)) /\ in.no_show_rate < 100}
DegenerateInputs == ClinicInputs \ RegularInputs

\* DiagnosticData, the prop of the dashboard, with the metrics of the basic
\* run of the example input: the texts and lists are named by the run they
\* come from, bottlenecks is optional
InitialMetrics ==
    [current_monthly_revenue |-> Num(85000), revenue_lift_pct |-> Fin(1491, 10),
     total_savings |-> Num(1520976), staff_reduction_pct |-> Fin(245, 10),
     recommended_pilot_value |-> Num(8000), projected_revenue_12mo |-> Num(2540820),
     payback_months |-> Num(1), staff_hours_saved_per_week |-> Num(78),
     no_show_reduction_pct |-> Num(42), roi_multiple |-> Fin(1901, 10)]

InitialDatas ==
    {[narrative |-> "basic", hidden_leaks |-> "basic", bottlenecks |-> b,
      metrics |-> InitialMetrics] : b \in {Undefined, Some("basic")}}

\* the dashboard is not mounted
NoDashboard ==
    /\ data \in {[narrative |-> "basic", hidden_leaks |-> "basic",
                  bottlenecks |-> Undefined, metrics |-> InitialMetrics]}
    /\ deeperOpen = FALSE
    /\ deeperLoading = FALSE
    /\ isDeeperRun = FALSE
    /\ csvFile = FALSE
    /\ submitPc = "idle"
    /\ submitRes = Undefined
    /\ toast = "none"
    /\ submits = 0

\* no request is being handled: the engine is invoked directly
NoRequest ==
    /\ env = [supabase |-> TRUE, openai |-> FALSE]
    /\ body = [kind |-> "none", deeperData |-> Undefined]
    /\ pc = "idle"
    /\ mcp = "none"
    /\ result = Undefined
    /\ narrative = "none"
    /\ response = Undefined

\* the number of distinct invocations recorded for one ClinicInput
MaxCalls == 2

\* the sides a tie of utilizationGap * capacityTreatments * atv can fall on
TieOutcomes(in) ==
    LET m == deriveClinicMetrics(in, Undefined)
    IN  IF IsTie(Mul(Mul(UtilizationGap(m), m.capacityTreatments), m.atv))
        THEN BOOLEAN ELSE {FALSE}

-----------------------------------------------------------------------------
(* Invocations of the engine.  calls records, for the ClinicInput of the   *)
(* run, the invocations made so far: the second argument, the metrics      *)
(* derived inside the invocation and the result returned.                  *)

Init ==
    /\ \/ input \in RegularInputs
       \/ input \in DegenerateInputs
    /\ sortImpl \in SortImpls
    /\ fpTieDown \in TieOutcomes(input)
    /\ calls = {}
    /\ NoRequest
    /\ NoDashboard

Invoke(deeperData) ==
    /\ Cardinality(calls) < MaxCalls
    /\ calls' = calls \cup
                  {[deeperData |-> deeperData,
                    m |-> deriveClinicMetrics(input, deeperData),
                    result |-> getMockDiagnosticResult(input, deeperData)]}
    /\ UNCHANGED <<input, sortImpl, fpTieDown>>
    /\ UNCHANGED hvars
    /\ UNCHANGED dvars

Next == \E deeperData \in DeeperArgs : Invoke(deeperData)

Spec == Init /\ [][Next]_vars

\* the engine on clinics at the edges of bodySchema: a treatment value of
\* half a cent (avg_treatment_value is any number >= 0), with which every
\* impact of a small clinic rounds to 0, and more than two locations
EdgeInputs ==
    [monthly_revenue : {1, 85000}, staff_count : {1, 8}, no_show_rate : {0, 12},
     avg_treatment_value : {Fin(1, 200), Num(250)}, number_of_locations : {1, 2, 3}]

EdgeInit ==
    /\ input \in EdgeInputs
    /\ sortImpl \in SortImpls
    /\ fpTieDown \in TieOutcomes(input)
    /\ calls = {}
    /\ NoRequest
    /\ NoDashboard

EdgeSpec == EdgeInit /\ [][Next]_vars

-----------------------------------------------------------------------------
(* The POST handler of the API route.  Each action is the code the handler *)
(* runs between two awaits: the parsing of the body up to the fetch of     *)
(* runDiagnostic, the settling of that fetch up to the next await, the     *)
(* settling of the OpenAI fetch of generateNarrative, and the settling of  *)
(* the Supabase insert.  The code passes no timeout and no AbortSignal to  *)
(* a fetch, so an external service that never answers leaves the handler   *)
(* at its await.                                                           *)

\* the example input of the documentation
ScenarioA ==
    [monthly_revenue |-> 85000, staff_count |-> 8, no_show_rate |-> 12,
     avg_treatment_value |-> Num(250), number_of_locations |-> 1]

\* the ClinicInput part of the request bodies
RequestInputs == {ScenarioA, [ScenarioA EXCEPT !.avg_treatment_value = Num(0)]}

\* the request bodies: not JSON, rejected by bodySchema, or valid with or
\* without deeperData
RequestBodies ==
    {[kind |-> "notJson", deeperData |-> Undefined],
     [kind |-> "invalid", deeperData |-> Undefined]}
    \cup {[kind |-> "valid", deeperData |-> d] : d \in DeeperArgs}

\* process.env: the Supabase URL and key, and OPENAI_API_KEY, set or not
Environments == [supabase : BOOLEAN, openai : BOOLEAN]

\* how the fetch of runDiagnostic settles: it rejects, it resolves with a
\* status that is not OK, with an OK status and a body that is not JSON,
\* with a McpDiagnosticResult, or with JSON that is no McpDiagnosticResult
McpAnswers == {"networkError", "notOk", "badJson", "ok", "malformed"}

\* runDiagnostic ends by throwing
ThrowsOnNetworkErrorOnly(answer) == answer = "networkError"

\* runDiagnostic rejects when fetch rejects, when res.ok is false (throw new
\* Error) and when res.json() rejects
Throws(answer) == answer \in {"networkError", "notOk", "badJson"}

\* a result computed by the external service
RemoteResult ==
    [current_state |-> [provider_utilization |-> Num(70)],
     hidden_leaks |-> <<>>,
     bottlenecks |-> <<>>,
     projection_90_day |-> [revenue_lift_pct |-> Num(5)],
     projection_12_month |-> [revenue_lift_pct |-> Num(10)],
     staff_reduction_pct |-> Num(20),
     revenue_lift |-> Num(10),
     total_savings |-> Num(100000),
     recommended_pilot_value |-> 8000]

\* JSON of the external service that is cast to McpDiagnosticResult without
\* a check and has none of its fields
MalformedResult == [detail |-> "not a result"]

\* const data = (await res.json()) as McpDiagnosticResult
RemoteData(answer) == IF answer = "ok" THEN RemoteResult ELSE MalformedResult

\* generateNarrative reads result.current_state.provider_utilization and
\* result.bottlenecks.length: a TypeError when they are missing
WellFormed(res) == {"current_state", "bottlenecks"} \subseteq DOMAIN res

\* projections of the stored row and of the response
Projections(res) ==
    [day_90 |-> res.projection_90_day,
     month_12 |-> res.projection_12_month,
     staff_reduction_pct |-> res.staff_reduction_pct,
     revenue_lift |-> res.revenue_lift,
     total_savings |-> res.total_savings,
     recommended_pilot_value |-> res.recommended_pilot_value]

\* NextResponse.json({ success: false, error }, { status })
ErrorResponse(status, error) ==
    [status |-> status, success |-> FALSE, error |-> error, id |-> Undefined,
     projections |-> Undefined, narrative |-> "none", hidden_leaks |-> Undefined,
     bottlenecks |-> Undefined, stored |-> FALSE]

\* NextResponse.json({ success: true, id, projections, narrative,
\* hidden_leaks, bottlenecks }), with id null when the insert failed
SuccessResponse(res, narr, stored) ==
    [status |-> 200, success |-> TRUE, error |-> "none",
     id |-> IF stored THEN Some("id") ELSE Undefined,
     projections |-> Some(Projections(res)), narrative |-> narr,
     hidden_leaks |-> Some(res.hidden_leaks),
     bottlenecks |-> Some(res.bottlenecks), stored |-> stored]

\* the outer catch: status 500 with the message of the error
Fail500(error) ==
    /\ response' = Some(ErrorResponse(500, error))
    /\ pc' = "done"

\* createSupabaseClient throws without its configuration; otherwise the
\* insert is awaited
BeginInsert(narr) ==
    /\ narrative' = narr
    /\ IF env.supabase
       THEN pc' = "insert" /\ response' = response
       ELSE Fail500("Missing NEXT_PUBLIC_SUPABASE_URL or NEXT_PUBLIC_SUPABASE_ANON_KEY")

\* generateNarrative: the fallback text is built from the result; without
\* OPENAI_API_KEY it is returned, otherwise the OpenAI fetch is awaited
BeginNarrative(res) ==
    /\ result' = Some(res)
    /\ IF ~WellFormed(res)
       THEN narrative' = narrative /\ Fail500("TypeError")
       ELSE IF env.openai
            THEN pc' = "generateNarrative" /\ narrative' = narrative /\ response' = response
            ELSE BeginInsert("fallback")

PostInit ==
    /\ input \in RequestInputs
    /\ sortImpl \in SortImpls
    /\ fpTieDown \in TieOutcomes(input)
    /\ calls = {}
    /\ env \in Environments
    /\ body \in RequestBodies
    /\ pc = "start"
    /\ mcp = "none"
    /\ result = Undefined
    /\ narrative = "none"
    /\ response = Undefined
    /\ NoDashboard

\* a handler that passes every body that is JSON on to runDiagnostic
ParseWithoutValidation ==
    /\ pc = "start"
    /\ IF body.kind = "notJson"
       THEN Fail500("SyntaxError") /\ mcp' = mcp
       ELSE /\ pc' = "runDiagnostic"
            /\ mcp' = "pending"
            /\ response' = response
    /\ UNCHANGED <<input, sortImpl, fpTieDown, calls, env, body, result, narrative>>
    /\ UNCHANGED dvars

\* request.json(), bodySchema.safeParse and the call of runDiagnostic up to
\* its fetch
Parse ==
    /\ pc = "start"
    /\ IF body.kind = "notJson"
       THEN Fail500("SyntaxError") /\ mcp' = mcp
       ELSE IF body.kind = "invalid"
            THEN /\ response' = Some(ErrorResponse(400, "Invalid input"))
                 /\ pc' = "done"
                 /\ mcp' = mcp
            ELSE /\ pc' = "runDiagnostic"
                 /\ mcp' = "pending"
                 /\ response' = response
    /\ UNCHANGED <<input, sortImpl, fpTieDown, calls, env, body, result, narrative>>
    /\ UNCHANGED dvars

\* the fetch of runDiagnostic settles: a throw is caught and the result is
\* computed by getMockDiagnosticResult on the same input and deeperData,
\* otherwise the result is the data of the service; generateNarrative starts
McpAnswer(answer) ==
    /\ pc = "runDiagnostic"
    /\ mcp' = answer
    /\ IF Throws(answer)
       THEN /\ calls' = calls \cup
                   {[deeperData |-> body.deeperData,
                     m |-> deriveClinicMetrics(input, body.deeperData),
                     result |-> getMockDiagnosticResult(input, body.deeperData)]}
            /\ BeginNarrative(getMockDiagnosticResult(input, body.deeperData))
       ELSE /\ calls' = calls
            /\ BeginNarrative(RemoteData(answer))
    /\ UNCHANGED <<input, sortImpl, fpTieDown, env, body>>
    /\ UNCHANGED dvars

\* the OpenAI fetch settles: with a text, or generateNarrative catches the
\* failure and returns the fallback text
OpenAiAnswer(ok) ==
    /\ pc = "generateNarrative"
    /\ BeginInsert(IF ok THEN "openai" ELSE "fallback")
    /\ UNCHANGED <<input, sortImpl, fpTieDown, calls, env, body, mcp, result>>
    /\ UNCHANGED dvars

\* a handler that answers an insert error with status 500
InsertAnswerStrict(stored) ==
    /\ pc = "insert"
    /\ response' = Some(IF stored THEN SuccessResponse(result[1], narrative, TRUE)
                        ELSE ErrorResponse(500, "insert error"))
    /\ pc' = "done"
    /\ UNCHANGED <<input, sortImpl, fpTieDown, calls, env, body, mcp, result, narrative>>
    /\ UNCHANGED dvars

\* the insert settles: the row is stored, or the error is logged and the
\* response has id null; both responses have status 200
InsertAnswer(stored) ==
    /\ pc = "insert"
    /\ response' = Some(SuccessResponse(result[1], narrative, stored))
    /\ pc' = "done"
    /\ UNCHANGED <<input, sortImpl, fpTieDown, calls, env, body, mcp, result, narrative>>
    /\ UNCHANGED dvars

PostNext ==
    \/ Parse
    \/ \E answer \in McpAnswers : McpAnswer(answer)
    \/ \E ok \in BOOLEAN : OpenAiAnswer(ok)
    \/ \E stored \in BOOLEAN : InsertAnswer(stored)

PostSpec == PostInit /\ [][PostNext]_vars

\* the handler runs its own code whenever it can, and OpenAI and Supabase
\* answer; nothing makes the external MCP service answer
PostLiveSpec ==
    /\ PostSpec
    /\ WF_vars(Parse)
    /\ WF_vars(\E ok \in BOOLEAN : OpenAiAnswer(ok))
    /\ WF_vars(\E stored \in BOOLEAN : InsertAnswer(stored))

-----------------------------------------------------------------------------
(* The deeper-analysis form of the DiagnosticDashboard component.  The     *)
(* submit handler runs between its awaits: csvFile.text(), the fetch of    *)
(* /api/diagnostic and res.json().  The form is rendered while isDeeperRun *)
(* is false and the dialog is open, and its submit button is disabled      *)
(* while deeperLoading is true, so one submit is in flight at a time and   *)
(* the data the handler closes over is the data displayed.  The answer of  *)
(* the server is left to the environment.                                  *)

\* the number of submits of one mounted dashboard
MaxSubmits == 3

\* v ?? old, for an optional value v
Coalesce(v, old) == IF v = Undefined THEN old ELSE v[1]

\* the body of a response: not JSON, the JSON null, or an object of which
\* every field may be missing
Json(kind, success, error, narr, leaks, bns, projections) ==
    [kind |-> kind, success |-> success, error |-> error, narrative |-> narr,
     hidden_leaks |-> leaks, bottlenecks |-> bns, projections |-> projections]

\* projections of a deeper run as the route sends them
DeeperProjections ==
    [day_90 |-> Some([payback_months |-> Some(Num(1)),
                      staff_hours_saved_per_week |-> Some(Num(78)),
                      no_show_reduction_pct |-> Some(Num(55))]),
     month_12 |-> Some([roi_multiple |-> Some(Fin(2425, 10))]),
     revenue_lift |-> Some(Fin(1902, 10)),
     total_savings |-> Some(Num(1939968)),
     staff_reduction_pct |-> Some(Fin(245, 10)),
     recommended_pilot_value |-> Some(Num(8000))]

\* projections without the two horizons and with a revenue lift only
SparseProjections ==
    [day_90 |-> Undefined, month_12 |-> Undefined, revenue_lift |-> Some(Num(30)),
     total_savings |-> Undefined, staff_reduction_pct |-> Undefined,
     recommended_pilot_value |-> Undefined]

ResponseBodies ==
    {Json("notJson", Undefined, Undefined, Undefined, Undefined, Undefined, Undefined),
     Json("null", Undefined, Undefined, Undefined, Undefined, Undefined, Undefined),
     Json("object", Some(FALSE), Some("Invalid input"), Undefined, Undefined, Undefined, Undefined),
     Json("object", Undefined, Undefined, Undefined, Undefined, Undefined, Undefined),
     Json("object", Some(TRUE), Undefined, Some("deeper"), Some("deeper"), Some("deeper"),
          Some(DeeperProjections)),
     Json("object", Some(TRUE), Undefined, Undefined, Undefined, Undefined,
          Some(SparseProjections)),
     Json("object", Some(TRUE), Undefined, Undefined, Undefined, Undefined, Undefined)}

\* the Response of the fetch: res.ok and the body
Responses == [ok : BOOLEAN, body : ResponseBodies]

\* !res.ok || !json.success
Failed(r) == ~r.ok \/ r.body.success # Some(TRUE)

\* the argument of setData: the fields of the response, each replaced by the
\* displayed one when it is missing
RefinedData(old, json) ==
    LET none == [day_90 |-> Undefined, month_12 |-> Undefined, revenue_lift |-> Undefined,
                 total_savings |-> Undefined, staff_reduction_pct |-> Undefined,
                 recommended_pilot_value |-> Undefined]
        projections == Coalesce(json.projections, none)
        proj90 == Coalesce(projections.day_90,
                           [payback_months |-> Undefined,
                            staff_hours_saved_per_week |-> Undefined,
                            no_show_reduction_pct |-> Undefined])
        proj12 == Coalesce(projections.month_12, [roi_multiple |-> Undefined])
        monthly == old.metrics.current_monthly_revenue
        newRevLift == Coalesce(projections.revenue_lift, old.metrics.revenue_lift_pct)
    IN  [narrative |-> Coalesce(json.narrative, old.narrative),
         hidden_leaks |-> Coalesce(json.hidden_leaks, old.hidden_leaks),
         bottlenecks |-> IF json.bottlenecks = Undefined THEN old.bottlenecks
                         ELSE json.bottlenecks,
         metrics |->
            [current_monthly_revenue |-> monthly,
             revenue_lift_pct |-> newRevLift,
             total_savings |-> Coalesce(projections.total_savings, old.metrics.total_savings),
             staff_reduction_pct |->
                Coalesce(projections.staff_reduction_pct, old.metrics.staff_reduction_pct),
             recommended_pilot_value |->
                Coalesce(projections.recommended_pilot_value,
                         old.metrics.recommended_pilot_value),
             projected_revenue_12mo |->
                Mul(Mul(monthly, Num(12)), Add(Num(1), Div(newRevLift, Num(100)))),
             payback_months |-> Coalesce(proj90.payback_months, old.metrics.payback_months),
             staff_hours_saved_per_week |->
                Coalesce(proj90.staff_hours_saved_per_week,
                         old.metrics.staff_hours_saved_per_week),
             no_show_reduction_pct |->
                Coalesce(proj90.no_show_reduction_pct, old.metrics.no_show_reduction_pct),
             roi_multiple |-> Coalesce(proj12.roi_multiple, old.metrics.roi_multiple)]]

\* a handler without the finally block: deeperLoading is not reset
FinallyMissing ==
    /\ deeperLoading' = deeperLoading
    /\ submitPc' = "idle"
    /\ submitRes' = Undefined

\* finally { setDeeperLoading(false) }, reached on every way out of the try
Finally ==
    /\ deeperLoading' = FALSE
    /\ submitPc' = "idle"
    /\ submitRes' = Undefined

\* catch (err) { toast.error(...) } and the finally block
Caught(message) ==
    /\ toast' = message
    /\ Finally
    /\ UNCHANGED <<data, deeperOpen, isDeeperRun, csvFile, submits>>

DashInit ==
    /\ input = ScenarioA
    /\ sortImpl = "insertion"
    /\ fpTieDown = FALSE
    /\ calls = {}
    /\ NoRequest
    /\ data \in InitialDatas
    /\ deeperOpen = FALSE
    /\ deeperLoading = FALSE
    /\ isDeeperRun = FALSE
    /\ csvFile = FALSE
    /\ submitPc = "idle"
    /\ submitRes = Undefined
    /\ toast = "none"
    /\ submits = 0

\* onOpenChange of the dialog, which is rendered while isDeeperRun is false
SetDeeperOpen(open) ==
    /\ ~isDeeperRun
    /\ open # deeperOpen
    /\ deeperOpen' = open
    /\ UNCHANGED <<data, deeperLoading, isDeeperRun, csvFile, submitPc, submitRes, toast, submits>>
    /\ UNCHANGED <<evars, hvars>>

\* onChange of the file input of the form
SetCsvFile(file) ==
    /\ ~isDeeperRun /\ deeperOpen
    /\ file # csvFile
    /\ csvFile' = file
    /\ UNCHANGED <<data, deeperOpen, deeperLoading, isDeeperRun, submitPc, submitRes, toast, submits>>
    /\ UNCHANGED <<evars, hvars>>

\* handleDeeperSubmit up to its first await: csvFile.text() when a file was
\* chosen, the fetch otherwise
Submit ==
    /\ ~isDeeperRun /\ deeperOpen /\ ~deeperLoading
    /\ submitPc = "idle"
    /\ submits < MaxSubmits
    /\ submits' = submits + 1
    /\ deeperLoading' = TRUE
    /\ submitPc' = IF csvFile THEN "csvText" ELSE "fetch"
    /\ UNCHANGED <<data, deeperOpen, isDeeperRun, csvFile, submitRes, toast>>
    /\ UNCHANGED <<evars, hvars>>

\* csvFile.text() settles: the fetch is started, or the rejection is caught
CsvTextSettles(ok) ==
    /\ submitPc = "csvText"
    /\ IF ok
       THEN /\ submitPc' = "fetch"
            /\ UNCHANGED <<data, deeperOpen, deeperLoading, isDeeperRun, csvFile, submitRes, toast,
                           submits>>
       ELSE Caught("NotReadableError")
    /\ UNCHANGED <<evars, hvars>>

\* the fetch settles: with a Response, of which the body is then read, or it
\* rejects (r is undefined) and the error is caught
FetchSettles(r) ==
    /\ submitPc = "fetch"
    /\ IF r # Undefined
       THEN /\ submitRes' = r
            /\ submitPc' = "json"
            /\ UNCHANGED <<data, deeperOpen, deeperLoading, isDeeperRun, csvFile, toast,
                           submits>>
       ELSE Caught("Failed to fetch")
    /\ UNCHANGED <<evars, hvars>>

\* res.json() settles and the handler runs to its end: a body that is not
\* JSON and json.success of null are caught, a failure is reported and the
\* handler returns, a success replaces the data and sets isDeeperRun
JsonSettles ==
    /\ submitPc = "json"
    /\ LET json == submitRes[1].body
       IN  IF json.kind = "notJson" THEN Caught("SyntaxError")
           ELSE IF json.kind = "null" /\ submitRes[1].ok THEN Caught("TypeError")
           ELSE IF Failed(submitRes[1])
                THEN /\ toast' = (IF json.kind = "null" THEN "Deeper diagnostic failed"
                                  ELSE Coalesce(json.error, "Deeper diagnostic failed"))
                     /\ Finally
                     /\ UNCHANGED <<data, deeperOpen, isDeeperRun, csvFile, submits>>
                ELSE /\ data' = RefinedData(data, json)
                     /\ isDeeperRun' = TRUE
                     /\ deeperOpen' = FALSE
                     /\ toast' = "success"
                     /\ Finally
                     /\ UNCHANGED <<csvFile, submits>>
    /\ UNCHANGED <<evars, hvars>>

DashNext ==
    \/ \E open \in BOOLEAN : SetDeeperOpen(open)
    \/ \E file \in BOOLEAN : SetCsvFile(file)
    \/ Submit
    \/ \E ok \in BOOLEAN : CsvTextSettles(ok)
    \/ \E r \in {Undefined} \cup {Some(x) : x \in Responses} : FetchSettles(r)
    \/ JsonSettles

DashSpec == DashInit /\ [][DashNext]_vars

-----------------------------------------------------------------------------
(* Properties                                                              *)

Names(bs) == {bs[i].name : i \in 1..Len(bs)}
Named(bs, name) == bs[CHOOSE i \in 1..Len(bs) : bs[i].name = name]
BasicCalls == {c \in calls : c.deeperData = Undefined}
DeeperCalls == {c \in calls : c.deeperData # Undefined}
HalfWidth(b) == Div(Sub(b.ciHigh, b.ciLow), Num(2))

BaseNames ==
    {"No-Show Revenue Drain", "Schedule Gap Dead Time", "Admin Overhead Burn",
     "Dormant Patient Revenue"}
DeeperNames ==
    {"Staff Idle Wage Burn", "Missed Treatment Upsell", "Inventory Waste & Carrying Cost"}

\* C1: in every result each bottleneck's impactDollars is greater than or
\* equal to the impactDollars of the bottleneck that follows it.
C1_OrderedByImpact ==
    \A c \in calls :
        LET bs == c.result.bottlenecks
        IN  \A i \in 1..(Len(bs) - 1) : Ge(bs[i].impactDollars, bs[i + 1].impactDollars)

\* C2: every bottleneck of every result has 0 <= confidence <= 99 and
\* ciLow <= impactDollars <= ciHigh.
C2_ConfidenceAndInterval ==
    \A c \in calls :
        LET bs == c.result.bottlenecks
        IN  \A i \in 1..Len(bs) :
                /\ bs[i].confidence >= 0
                /\ bs[i].confidence <= 99
                /\ Le(bs[i].ciLow, bs[i].impactDollars)
                /\ Le(bs[i].impactDollars, bs[i].ciHigh)

\* C3 as stated: for a basic and a deeper run of the same ClinicInput, every
\* shared category has deeper confidence >= basic confidence and deeper CI
\* half-width <= basic CI half-width, whatever the refinement fields are
\* (stated for the categories whose two half-widths are numbers).
C3_ModeMonotonicity ==
    \A b \in BasicCalls : \A d \in DeeperCalls :
        \A name \in Names(b.result.bottlenecks) \cap Names(d.result.bottlenecks) :
            LET bb == Named(b.result.bottlenecks, name)
                db == Named(d.result.bottlenecks, name)
            IN  /\ db.confidence >= bb.confidence
                /\ (IsFinite(HalfWidth(db)) /\ IsFinite(HalfWidth(bb)))
                       => Le(HalfWidth(db), HalfWidth(bb))

\* C3 as amended: every shared category has deeper confidence >= basic
\* confidence, and the deeper CI half-width exceeds the basic one in no
\* category other than Admin Overhead Burn, and there only when
\* staff_hourly_cost is supplied and is above the default of 30.
C3_ModeMonotonicityAmended ==
    \A b \in BasicCalls : \A d \in DeeperCalls :
        \A name \in Names(b.result.bottlenecks) \cap Names(d.result.bottlenecks) :
            LET bb == Named(b.result.bottlenecks, name)
                db == Named(d.result.bottlenecks, name)
                cost == d.deeperData[1].staff_hourly_cost
            IN  /\ db.confidence >= bb.confidence
                /\ Gt(HalfWidth(db), HalfWidth(bb)) =>
                      /\ name = "Admin Overhead Burn"
                      /\ cost # Undefined
                      /\ cost[1] > DEFAULT_HOURLY_COST

\* a basic and a deeper run with staff_hourly_cost 28 share Chair Utilization
\* Gap, with a strictly narrower interval in the deeper run
C3_Witness ==
    \E b \in BasicCalls : \E d \in DeeperCalls :
        /\ d.deeperData[1].staff_hourly_cost = Some(28)
        /\ "Chair Utilization Gap" \in
               Names(b.result.bottlenecks) \cap Names(d.result.bottlenecks)
        /\ \A name \in Names(b.result.bottlenecks) :
               Lt(HalfWidth(Named(d.result.bottlenecks, name)),
                  HalfWidth(Named(b.result.bottlenecks, name)))

\* the integer nearest to 100 * n / monthly, halves upwards
RoundedPercent(n, monthly) == (200 * n + monthly) \div (2 * monthly)

\* C4: every bottleneck's impactPercent is round(impactDollars / monthlyRevenue
\* * 100) of the impactDollars reported in the same bottleneck (a NaN or
\* infinite impactDollars gives the same impactPercent).
C4_PercentConsistency ==
    \A c \in calls :
        LET bs == c.result.bottlenecks
        IN  \A i \in 1..Len(bs) :
                IF IsFinite(bs[i].impactDollars)
                THEN /\ bs[i].impactDollars.d = 1
                     /\ bs[i].impactPercent =
                            Num(RoundedPercent(bs[i].impactDollars.n, input.monthly_revenue))
                ELSE bs[i].impactPercent = bs[i].impactDollars

\* a bottleneck whose percentage is an exact half before rounding, and one
\* whose percentage is not an integer
C4_Witness ==
    \E c \in calls :
        LET bs == c.result.bottlenecks
        IN  /\ \E i \in 1..Len(bs) :
                   /\ IsFinite(bs[i].impactDollars)
                   /\ (200 * bs[i].impactDollars.n) % (2 * input.monthly_revenue)
                          = input.monthly_revenue
            /\ \E i \in 1..Len(bs) :
                   /\ IsFinite(bs[i].impactDollars)
                   /\ (100 * bs[i].impactDollars.n) % input.monthly_revenue # 0

\* C5: the derived utilization is min(0.99, treatmentsCompleted /
\* capacityTreatments) and never exceeds 0.99, also when treatmentsCompleted
\* is larger than capacityTreatments.
C5_UtilizationCap ==
    \A c \in calls :
        LET tc == c.m.treatmentsCompleted
            cap == c.m.capacityTreatments
            u == c.m.currentUtilization
        IN  /\ IsFinite(u) /\ IsFinite(cap) /\ cap.d = 1 /\ cap.n > 0
            /\ 100 * u.n <= 99 * u.d
            /\ IF IsFinite(tc)
               THEN IF 100 * tc.n < 99 * cap.n
                    THEN u.n * cap.n = tc.n * u.d
                    ELSE u = Fin(99, 100)
               ELSE tc = PosInf /\ u = Fin(99, 100)

\* a run whose completed treatments exceed the capacity
C5_Witness ==
    \E c \in calls :
        /\ IsFinite(c.m.treatmentsCompleted)
        /\ c.m.treatmentsCompleted.n > c.m.capacityTreatments.n
        /\ c.m.currentUtilization = Fin(99, 100)

\* C7 as stated: for the basic-mode run of Scenario A, revenue_lift is between
\* 0 and 22 and recommended_pilot_value is 8000.
C7_ScenarioA ==
    \A c \in BasicCalls :
        input = ScenarioA =>
            /\ Ge(c.result.revenue_lift, Num(0))
            /\ Le(c.result.revenue_lift, Num(22))
            /\ c.result.recommended_pilot_value = 8000

\* C7 as amended: for the basic-mode run of Scenario A, revenue_lift is 149.1
\* and recommended_pilot_value is 8000.
C7_ScenarioAAmended ==
    \A c \in BasicCalls :
        input = ScenarioA =>
            /\ c.result.revenue_lift = Fin(1491, 10)
            /\ c.result.projection_12_month.revenue_lift_pct = Fin(1491, 10)
            /\ c.result.recommended_pilot_value = 8000

\* the basic-mode run of Scenario A, with its five bottlenecks
C7_Witness ==
    \E c \in BasicCalls : input = ScenarioA /\ Len(c.result.bottlenecks) = 5

\* gap * capacityTreatments * avgTreatmentValue, from the derived metrics
GapDollars(m) ==
    Mul(Mul(MathMax(Num(0), Sub(Fin(85, 100), m.currentUtilization)), m.capacityTreatments),
        m.atv)

EffectiveMarketingSpend(d) ==
    IF d.monthly_marketing_spend = Undefined
    THEN Fin(8 * input.monthly_revenue, 100)
    ELSE Num(d.monthly_marketing_spend[1])

\* C9: a deeper-mode result holds every category of the basic-mode result of
\* the same ClinicInput, plus Staff Idle Wage Burn, Missed Treatment Upsell
\* and Inventory Waste always, plus the marketing bottleneck if and only if
\* the effective marketing spend is greater than 0; it adds between 2 and 4
\* bottlenecks and never has more than 9.
C9_DeeperCategories ==
    \A d \in DeeperCalls :
        LET dn == Names(d.result.bottlenecks)
        IN  /\ DeeperNames \subseteq dn
            /\ ("Marketing Spend Blind Spot" \in dn)
                   <=> Gt(EffectiveMarketingSpend(d.deeperData[1]), Num(0))
            /\ Len(d.result.bottlenecks) <= 9
            /\ Cardinality(dn) = Len(d.result.bottlenecks)
            /\ \A b \in BasicCalls :
                   LET added == Len(d.result.bottlenecks) - Len(b.result.bottlenecks)
                   IN  /\ Names(b.result.bottlenecks) \subseteq dn
                       /\ dn \ Names(b.result.bottlenecks)
                              \subseteq DeeperNames \cup {"Marketing Spend Blind Spot"}
                       /\ added >= 2 /\ added <= 4

\* a basic run of five bottlenecks next to a deeper run with a supplied
\* marketing spend of 0, which adds three bottlenecks and no marketing one
C9_Witness ==
    \E b \in BasicCalls : \E d \in DeeperCalls :
        /\ Len(b.result.bottlenecks) = 5
        /\ d.deeperData[1].monthly_marketing_spend = Some(0)
        /\ Len(d.result.bottlenecks) = 8
        /\ "Marketing Spend Blind Spot" \notin Names(d.result.bottlenecks)

\* the marks of a deeper run in a result: no-show reduction 55, base
\* confidence 93 (Admin Overhead Burn has 93 + 3), CI multiplier 0.05, capture
\* rate 0.72 and the extra categories
DeeperMarks(r) ==
    LET admin == Named(r.bottlenecks, "Admin Overhead Burn")
    IN  /\ r.projection_90_day.no_show_reduction_pct = 55
        /\ admin.confidence = 96
        /\ admin.ciLow = MathRound(Mul(admin.impactDollars, Fin(95, 100)))
        /\ admin.ciHigh = MathRound(Mul(admin.impactDollars, Fin(105, 100)))
        /\ r.total_savings =
               Mul(MathRound(Mul(TotalImpact(r.bottlenecks), Fin(72, 100))), Num(12))
        /\ DeeperNames \subseteq Names(r.bottlenecks)

\* the marks of a basic run: no-show reduction 42, base confidence 85, CI
\* multiplier 0.12, capture rate 0.60 and no extra category
BasicMarks(r) ==
    LET admin == Named(r.bottlenecks, "Admin Overhead Burn")
    IN  /\ r.projection_90_day.no_show_reduction_pct = 42
        /\ admin.confidence = 88
        /\ admin.ciLow = MathRound(Mul(admin.impactDollars, Fin(88, 100)))
        /\ admin.ciHigh = MathRound(Mul(admin.impactDollars, Fin(112, 100)))
        /\ r.total_savings =
               Mul(MathRound(Mul(TotalImpact(r.bottlenecks), Fin(60, 100))), Num(12))
        /\ DeeperNames \cap Names(r.bottlenecks) = {}

SomeFieldPresent(deeperData) ==
    /\ deeperData # Undefined
    /\ \/ deeperData[1].staff_hourly_cost # Undefined
       \/ deeperData[1].monthly_marketing_spend # Undefined
       \/ deeperData[1].current_inventory_value # Undefined
       \/ deeperData[1].csv_row_count # Undefined

EmptyRecord == Some(DeeperInput(Undefined, Undefined, Undefined, Undefined))

\* C10 as stated: a run is in deeper mode if and only if at least one field of
\* the RefinementInput is present, and a RefinementInput without any field
\* gives the same result as a run without RefinementInput.
C10_DeeperIffSomeField ==
    /\ \A c \in calls :
           IF SomeFieldPresent(c.deeperData) THEN DeeperMarks(c.result)
           ELSE BasicMarks(c.result)
    /\ \A b \in BasicCalls : \A e \in calls :
           e.deeperData = EmptyRecord => e.result = b.result

\* C10 as amended: a run is in deeper mode if and only if a RefinementInput
\* record is supplied, with or without fields; a record without any field
\* gives a deeper-mode result, computed with the default hourly cost,
\* marketing spend and inventory value, that differs from the result of a
\* run without RefinementInput.
C10_DeeperIffRecordSupplied ==
    /\ \A c \in calls :
           IF c.deeperData # Undefined THEN DeeperMarks(c.result)
           ELSE BasicMarks(c.result)
    /\ \A b \in BasicCalls : \A e \in calls :
           e.deeperData = EmptyRecord =>
               /\ e.result # b.result
               /\ e.m = b.m
               /\ Named(e.result.bottlenecks, "Inventory Waste & Carrying Cost").impactDollars
                      = MathRound(Fin(11 * 15 * input.monthly_revenue, 10000))
               /\ Len(e.result.bottlenecks) = Len(b.result.bottlenecks) + 4

\* a run without RefinementInput next to a run with a RefinementInput record
\* that has no field
C10_Witness ==
    \E b \in BasicCalls : \E e \in calls :
        /\ e.deeperData = EmptyRecord
        /\ Len(e.result.bottlenecks) = 9
        /\ IsFinite(e.result.total_savings)

\* the ways the external MCP call fails: the fetch rejects, the status is
\* not OK, or the body of an OK answer cannot be parsed
FailedAnswers == {"networkError", "notOk", "badJson"}

\* what the handler computes locally for the validated body of the request
LocalResult == getMockDiagnosticResult(input, body.deeperData)
LocalCall ==
    [deeperData |-> body.deeperData,
     m |-> deriveClinicMetrics(input, body.deeperData),
     result |-> LocalResult]

\* C11: for a validated request, a failed external MCP call (network error,
\* non-OK status) is caught: the handler goes on with the result of
\* getMockDiagnosticResult on the same input and deeperData, the response is
\* built from that result and never carries the error of the MCP call (the
\* one error response left is that of a missing Supabase configuration,
\* which every request gets); and the local engine is invoked only when the
\* external call has failed.
C11_FallbackToEngine ==
    /\ calls # {} => mcp \in FailedAnswers
    /\ mcp \in FailedAnswers =>
          /\ body.kind = "valid"
          /\ calls = {LocalCall}
          /\ result = Some(LocalResult)
          /\ response # Undefined =>
                IF env.supabase
                THEN /\ response[1].status = 200
                     /\ response[1].success
                     /\ response[1].bottlenecks = Some(LocalResult.bottlenecks)
                     /\ response[1].projections = Some(Projections(LocalResult))
                ELSE /\ response[1].status = 500
                     /\ response[1].error =
                            "Missing NEXT_PUBLIC_SUPABASE_URL or NEXT_PUBLIC_SUPABASE_ANON_KEY"

\* the external service answered with a status that is not OK, and the
\* request with deeperData is answered from the local deeper-mode result
C11_Witness ==
    /\ mcp = "notOk"
    /\ body.deeperData # Undefined
    /\ pc = "done"
    /\ response[1].success
    /\ response[1].bottlenecks = Some(LocalResult.bottlenecks)
    /\ Len(LocalResult.bottlenecks) = 9

\* C12: every validated request, once runDiagnostic is awaited, eventually
\* receives a response (the claim adds: one built from a diagnostic result),
\* also when the external MCP service never answers.
C12_EventuallyResponds == (pc = "runDiagnostic") ~> (pc = "done")

\* the bottlenecks whose impact is computed from a number of treatments
TreatmentCountNames ==
    {"No-Show Revenue Drain", "Dormant Patient Revenue", "Chair Utilization Gap",
     "Missed Treatment Upsell"}

\* the numbers of a result
ResultNumbers(r) ==
    {r.current_state.treatments_per_month, r.revenue_lift, r.total_savings,
     r.projection_90_day.revenue_lift_pct, r.projection_90_day.payback_months,
     r.projection_12_month.roi_multiple}
    \cup {r.bottlenecks[i].impactDollars : i \in 1..Len(r.bottlenecks)}
    \cup {r.bottlenecks[i].impactPercent : i \in 1..Len(r.bottlenecks)}
    \cup {r.bottlenecks[i].ciLow : i \in 1..Len(r.bottlenecks)}
    \cup {r.bottlenecks[i].ciHigh : i \in 1..Len(r.bottlenecks)}

\* C13: with avg_treatment_value = 0, treatmentsCompleted is 0, every
\* bottleneck impact derived from treatment counts is 0, and no number of
\* the result is infinite or NaN.
C13_ZeroTreatmentValue ==
    \A c \in calls :
        input.avg_treatment_value = Num(0) =>
            /\ c.m.treatmentsCompleted = Num(0)
            /\ \A i \in 1..Len(c.result.bottlenecks) :
                   c.result.bottlenecks[i].name \in TreatmentCountNames
                       => c.result.bottlenecks[i].impactDollars = Num(0)
            /\ \A x \in ResultNumbers(c.result) : IsFinite(x)

\* C14: with no_show_rate = 100 (and a positive avg_treatment_value),
\* grossScheduled is computed as for a rate of 99,
\* round(treatmentsCompleted / 0.01), and grossScheduled, the no-show count
\* and the No-Show Revenue Drain impact are finite.
C14_FullNoShowRate ==
    \A c \in calls :
        (input.no_show_rate = 100 /\ Gt(input.avg_treatment_value, Num(0))) =>
            /\ c.m.grossScheduled = MathRound(Div(c.m.treatmentsCompleted, Fin(1, 100)))
            /\ IsFinite(c.m.grossScheduled)
            /\ IsFinite(c.m.noShowAppointments)
            /\ IsFinite(Named(c.result.bottlenecks, "No-Show Revenue Drain").impactDollars)

\* C16: with no_show_rate = 0 the no-show count is 0, and No-Show Revenue
\* Drain is in the list with impactDollars 0 as its last element, also when
\* other bottlenecks have impact 0.
C16_ZeroNoShowRate ==
    \A c \in calls :
        input.no_show_rate = 0 =>
            LET bs == c.result.bottlenecks
            IN  /\ c.m.noShowAppointments = Num(0)
                /\ bs[Len(bs)].name = "No-Show Revenue Drain"
                /\ bs[Len(bs)].impactDollars = Num(0)

\* C15: paybackMonths is at least 1, and when recoverableMonthly is 0 (the
\* 12-month savings are 0) it is a finite number.
C15_PaybackDefined ==
    \A c \in calls :
        /\ Ge(c.result.projection_90_day.payback_months, Num(1))
        /\ c.result.total_savings = Num(0)
               => IsFinite(c.result.projection_90_day.payback_months)

\* C17: recommended_pilot_value is 8000 for one location and 12000 for any
\* other number of locations, whatever the other input fields and the mode.
C17_PilotValue ==
    \A c \in calls :
        c.result.recommended_pilot_value =
            IF input.number_of_locations = 1 THEN 8000 ELSE 12000

\* runs of one clinic with three locations in basic and in deeper mode
C17_Witness ==
    /\ input.number_of_locations = 3
    /\ BasicCalls # {} /\ DeeperCalls # {}
    /\ \A c \in calls : c.result.recommended_pilot_value = 12000

\* the validated inputs without the two degenerate cases
Regular(in) == Gt(in.avg_treatment_value, Num(0)) /\ in.no_show_rate < 100

\* the derived metrics named by the data model
DerivedMetrics(m) ==
    {m.treatmentsCompleted, m.treatmentsPerDay, m.grossScheduled, m.noShowAppointments,
     m.providers, m.providerHoursPerMonth, m.capacityTreatments, m.currentUtilization,
     m.revenuePerProviderHour, m.adminHoursPerWeek, m.adminHoursPerMonth,
     m.gapHoursPerProviderPerDay}

\* C18: for a validated input with avg_treatment_value > 0 and no_show_rate
\* < 100, every derived metric and every bottleneck's impactDollars and
\* ciLow is >= 0, and grossScheduled >= treatmentsCompleted.
C18_NonNegative ==
    \A c \in calls :
        Regular(input) =>
            /\ \A x \in DerivedMetrics(c.m) : Ge(x, Num(0))
            /\ Ge(c.m.grossScheduled, c.m.treatmentsCompleted)
            /\ \A i \in 1..Len(c.result.bottlenecks) :
                   /\ Ge(c.result.bottlenecks[i].impactDollars, Num(0))
                   /\ Ge(c.result.bottlenecks[i].ciLow, Num(0))

\* a deeper run with hourly cost 0, whose Admin Overhead Burn is 0, of a
\* clinic with no-shows and a positive lower bound of their impact
C18_Witness ==
    \E c \in DeeperCalls :
        /\ Regular(input)
        /\ Gt(c.m.grossScheduled, c.m.treatmentsCompleted)
        /\ Named(c.result.bottlenecks, "Admin Overhead Burn").impactDollars = Num(0)
        /\ Gt(Named(c.result.bottlenecks, "No-Show Revenue Drain").ciLow, Num(0))

\* C19: no two bottlenecks of a result have the same name.
C19_UniqueNames ==
    \A c \in calls :
        \A i, j \in 1..Len(c.result.bottlenecks) :
            c.result.bottlenecks[i].name = c.result.bottlenecks[j].name => i = j

\* a basic run of five bottlenecks and a deeper run of nine
C19_Witness ==
    /\ \E c \in BasicCalls : Len(c.result.bottlenecks) = 5
    /\ \E c \in DeeperCalls : Len(c.result.bottlenecks) = 9

\* C20: every bottleneck of a deeper-mode result has a confidence between 92
\* and 99.
C20_DeeperConfidence ==
    \A c \in DeeperCalls :
        \A i \in 1..Len(c.result.bottlenecks) :
            /\ c.result.bottlenecks[i].confidence >= 92
            /\ c.result.bottlenecks[i].confidence <= 99

\* a deeper run with the marketing bottleneck at confidence 92 and the
\* no-show bottleneck at the cap of 99
C20_Witness ==
    \E c \in DeeperCalls :
        /\ "Marketing Spend Blind Spot" \in Names(c.result.bottlenecks)
        /\ Named(c.result.bottlenecks, "Marketing Spend Blind Spot").confidence = 92
        /\ Named(c.result.bottlenecks, "No-Show Revenue Drain").confidence = 99

\* min(99, base + bonus) for some bonus of the set, and a confidence interval
\* of the mode multiplier times some factor between 1.0 and 1.3
UsesBonusAndScale(b, isDeeper, bonuses) ==
    LET base == IF isDeeper THEN 93 ELSE 85
        mult == IF isDeeper THEN Fin(5, 100) ELSE Fin(12, 100)
    IN  /\ \E bonus \in bonuses :
               b.confidence = IF base + bonus > 99 THEN 99 ELSE base + bonus
        /\ \E tenths \in 10..13 :
               LET w == Mul(mult, Fin(tenths, 10))
               IN  /\ b.ciLow = MathRound(Mul(b.impactDollars, Sub(Num(1), w)))
                   /\ b.ciHigh = MathRound(Mul(b.impactDollars, Add(Num(1), w)))

\* C21: every bottleneck's confidence is min(99, base + bonus) with base 85
\* (basic) or 93 (deeper) and a bonus between 0 and 7, so none is below the
\* base of its mode, and every interval uses the mode multiplier scaled by a
\* factor between 1.0 and 1.3.
C21_BonusAndScale ==
    \A c \in calls :
        \A i \in 1..Len(c.result.bottlenecks) :
            LET b == c.result.bottlenecks[i]
                isDeeper == c.deeperData # Undefined
            IN  /\ UsesBonusAndScale(b, isDeeper, 0..7)
                /\ b.confidence >= (IF isDeeper THEN 93 ELSE 85)

\* C21 as the code has it: the bonus lies between -1 and 7, and -1 is the
\* bonus of Marketing Spend Blind Spot, the only bottleneck below the base
\* confidence of its mode (92 in deeper mode); the factors are as stated.
C21_BonusAndScaleAmended ==
    \A c \in calls :
        \A i \in 1..Len(c.result.bottlenecks) :
            LET b == c.result.bottlenecks[i]
                isDeeper == c.deeperData # Undefined
                base == IF isDeeper THEN 93 ELSE 85
            IN  /\ UsesBonusAndScale(b, isDeeper, (-1)..7)
                /\ b.confidence >= base - 1
                /\ b.confidence < base <=> b.name = "Marketing Spend Blind Spot"

\* a deeper run with the marketing bottleneck at 92 and the no-show one
\* capped at 99, next to a basic run with the chair bottleneck at the base 85
C21_Witness ==
    /\ \E c \in DeeperCalls :
           /\ "Marketing Spend Blind Spot" \in Names(c.result.bottlenecks)
           /\ Named(c.result.bottlenecks, "Marketing Spend Blind Spot").confidence = 92
           /\ Named(c.result.bottlenecks, "No-Show Revenue Drain").confidence = 99
    /\ \E c \in BasicCalls :
           /\ "Chair Utilization Gap" \in Names(c.result.bottlenecks)
           /\ Named(c.result.bottlenecks, "Chair Utilization Gap").confidence = 85

\* the names in the order in which the code builds the list
ConstructionOrder ==
    << "No-Show Revenue Drain", "Schedule Gap Dead Time", "Admin Overhead Burn",
       "Dormant Patient Revenue", "Chair Utilization Gap", "Staff Idle Wage Burn",
       "Missed Treatment Upsell", "Inventory Waste & Carrying Cost",
       "Marketing Spend Blind Spot" >>
Rank(name) == CHOOSE k \in 1..Len(ConstructionOrder) : ConstructionOrder[k] = name

\* the impacts are the same number (NaN is equal to nothing)
SameImpact(a, b) == Le(a.impactDollars, b.impactDollars) /\ Ge(a.impactDollars, b.impactDollars)

\* C22: two bottlenecks of a result with equal impactDollars appear in their
\* construction order: the sort never swaps them.
C22_TiesKeepConstructionOrder ==
    \A c \in calls :
        LET bs == c.result.bottlenecks
        IN  \A i, j \in 1..Len(bs) :
                (i < j /\ SameImpact(bs[i], bs[j])) => Rank(bs[i].name) < Rank(bs[j].name)

\* a run whose sort moved bottlenecks and whose result has three bottlenecks
\* of the same impact, the first of them built first in the list
C22_Witness ==
    \E c \in calls :
        LET bs == c.result.bottlenecks
        IN  /\ bs # UnsortedBottlenecks(c.m, c.deeperData)
            /\ bs[1].name # "No-Show Revenue Drain"
            /\ \E i \in 1..(Len(bs) - 2) :
                   /\ bs[i].name = "No-Show Revenue Drain"
                   /\ SameImpact(bs[i], bs[i + 1])
                   /\ SameImpact(bs[i], bs[i + 2])

\* the sum of the impactDollars of the first k bottlenecks of a list
RECURSIVE SumOfImpacts(_, _)
SumOfImpacts(bs, k) ==
    IF k = 0 THEN Num(0) ELSE Add(SumOfImpacts(bs, k - 1), bs[k].impactDollars)

\* the captured share of the impacts of the returned list, before rounding
CapturedShare(c) ==
    Mul(SumOfImpacts(c.result.bottlenecks, Len(c.result.bottlenecks)),
        IF c.deeperData # Undefined THEN Fin(72, 100) ELSE Fin(60, 100))

\* C23: total_savings is 12 times recoverableMonthly, the rounded product of
\* the sum of the returned impacts and the capture rate (0.72 deeper, 0.60
\* basic), and the top-level total_savings and revenue_lift are the values
\* (NaN included) of total_savings and revenue_lift_pct of the 12-month
\* projection.
C23_RecoverableAndSavings ==
    \A c \in calls :
        /\ c.result.total_savings = Mul(MathRound(CapturedShare(c)), Num(12))
        /\ c.result.total_savings = c.result.projection_12_month.total_savings
        /\ c.result.revenue_lift = c.result.projection_12_month.revenue_lift_pct

\* a basic and a deeper run of one clinic, both with savings, in which the
\* captured share is not a whole number of dollars
C23_Witness ==
    /\ \E c \in BasicCalls :
           /\ Gt(c.result.total_savings, Num(0))
           /\ IsFinite(CapturedShare(c)) /\ CapturedShare(c).d # 1
    /\ \E c \in DeeperCalls :
           /\ Gt(c.result.total_savings, Num(0))
           /\ IsFinite(CapturedShare(c)) /\ CapturedShare(c).d # 1

\* C24: staff_reduction_pct is 24.5 in every result, at top level and in
\* the 12-month projection, whatever the inputs and the mode.
C24_StaffReductionConstant ==
    \A c \in calls :
        /\ c.result.staff_reduction_pct = Fin(245, 10)
        /\ c.result.projection_12_month.staff_reduction_pct = Fin(245, 10)

\* a basic and a deeper run with different revenue lifts and different
\* hours saved of a clinic of more than one staff member, both with 24.5
C24_Witness ==
    \E b \in BasicCalls, d \in DeeperCalls :
        /\ input.staff_count > 1
        /\ b.result.revenue_lift # d.result.revenue_lift
        /\ b.result.staff_reduction_pct = Fin(245, 10)
        /\ d.result.projection_12_month.staff_reduction_pct = Fin(245, 10)

\* C25: the idle-gap hours per provider per day are 1.8 for a no-show
\* fraction above 0.08, 1.2 for one above 0.04 and at most 0.08, and 0.8
\* otherwise: a rate of exactly 8% gives 1.2 and one of exactly 4% gives 0.8.
C25_GapHoursTiers ==
    \A c \in calls :
        c.m.gapHoursPerProviderPerDay =
            IF input.no_show_rate > 8 THEN Fin(18, 10)
            ELSE IF input.no_show_rate > 4 THEN Fin(12, 10)
            ELSE Fin(8, 10)

\* a run of a clinic with a no-show rate of exactly 8%, with 1.2 idle-gap
\* hours in its metrics
C25_Witness ==
    /\ input.no_show_rate = 8
    /\ \E c \in calls : c.m.gapHoursPerProviderPerDay = Fin(12, 10)

\* round(treatmentsCompleted * 0.45)
Opportunities(c) ==
    LET x == Mul(c.m.treatmentsCompleted, Fin(45, 100))
    IN  IF IsFinite(x) THEN Num((2 * x.n + x.d) \div (2 * x.d)) ELSE x

\* opportunities * avgUpsellValue * 0.30, rounded to the nearest dollar
UpsellDollars(c, avgUpsellValue) ==
    LET x == Mul(Mul(Opportunities(c), avgUpsellValue), Fin(30, 100))
    IN  IF IsFinite(x) THEN Num((2 * x.n + x.d) \div (2 * x.d)) ELSE x

\* C26: in deeper mode the impact of Missed Treatment Upsell is
\* opportunities * avgUpsellValue * 0.30 rounded to the nearest dollar, with
\* opportunities = round(treatmentsCompleted * 0.45) and avgUpsellValue =
\* avgTreatmentValue * 0.35 not rounded before the multiplication.
C26_UpsellUnroundedValue ==
    \A c \in DeeperCalls :
        Named(c.result.bottlenecks, "Missed Treatment Upsell").impactDollars =
            UpsellDollars(c, Mul(input.avg_treatment_value, Fin(35, 100)))

\* C26 as the code has it: avgUpsellValue is avgTreatmentValue * 0.35
\* rounded to whole dollars before the multiplication.
C26_UpsellRoundedValue ==
    \A c \in DeeperCalls :
        LET x == Mul(input.avg_treatment_value, Fin(35, 100))
            avgUpsellValue == Num((2 * x.n + x.d) \div (2 * x.d))
        IN  Named(c.result.bottlenecks, "Missed Treatment Upsell").impactDollars =
                UpsellDollars(c, avgUpsellValue)

\* a deeper run of the clinic of 340 treatments of 250 dollars: 153
\* opportunities of 88 dollars (87.5 rounded) give 4039 dollars
C26_Witness ==
    \E c \in DeeperCalls :
        /\ input.avg_treatment_value = Num(250)
        /\ c.m.treatmentsCompleted = Num(340)
        /\ Opportunities(c) = Num(153)
        /\ Named(c.result.bottlenecks, "Missed Treatment Upsell").impactDollars = Num(4039)

\* C27: a request whose body fails the validation of bodySchema is answered
\* with status 400 and success = false, and for it neither the external MCP
\* service nor the local engine, the narrative generator or the database
\* insert is invoked.
C27_InvalidBodyRejected ==
    body.kind = "invalid" =>
        /\ pc \in {"start", "done"}
        /\ mcp = "none"
        /\ calls = {}
        /\ result = Undefined
        /\ narrative = "none"
        /\ response # Undefined =>
               /\ response[1].status = 400
               /\ ~response[1].success
               /\ ~response[1].stored
        /\ pc = "done" => response # Undefined

\* the handler has answered a body that fails validation
C27_Witness ==
    /\ body.kind = "invalid"
    /\ pc = "done"
    /\ response # Undefined
    /\ response[1].status = 400
    /\ response[1].error = "Invalid input"

\* the insert was awaited and has settled: the narrative was generated and
\* the Supabase client was created
InsertSettled == pc = "done" /\ env.supabase /\ narrative # "none"

\* C28: once the result was produced and the insert has settled, with an
\* error or not, the response has status 200 and success = true and carries
\* the projections, narrative, hidden_leaks and bottlenecks of the result;
\* its id is null when the insert returned an error.
C28_InsertErrorStillSucceeds ==
    InsertSettled =>
        /\ response # Undefined
        /\ response[1].status = 200
        /\ response[1].success
        /\ response[1].projections = Some(Projections(result[1]))
        /\ response[1].narrative = narrative
        /\ response[1].hidden_leaks = Some(result[1].hidden_leaks)
        /\ response[1].bottlenecks = Some(result[1].bottlenecks)
        /\ ~response[1].stored => response[1].id = Undefined

\* the insert returned an error after the deeper-mode result of the local
\* engine and a narrative of OpenAI: the response has id null and the nine
\* bottlenecks
C28_Witness ==
    /\ InsertSettled
    /\ ~response[1].stored
    /\ response[1].success
    /\ response[1].id = Undefined
    /\ narrative = "openai"
    /\ Throws(mcp)
    /\ Len(response[1].bottlenecks[1]) = 9

\* the response the handler is reading has HTTP ok and success = true
SuccessfulResponse ==
    /\ submitPc = "json"
    /\ submitRes # Undefined
    /\ submitRes[1].ok
    /\ submitRes[1].body.kind = "object"
    /\ submitRes[1].body.success = Some(TRUE)

\* the handler reaches its end in this step
SubmitCompletes == submitPc # "idle" /\ submitPc' = "idle"

\* C29: when no submit is in flight (before the first and after any
\* completed one) deeperLoading is false; isDeeperRun becomes true only at
\* the end of a submit whose response has HTTP ok and success = true, and
\* never becomes false again; and a submit that completes otherwise leaves
\* the displayed data unchanged.
C29_SubmitOutcome ==
    /\ [](submitPc = "idle" => ~deeperLoading)
    /\ [][/\ (~isDeeperRun /\ isDeeperRun') => (SuccessfulResponse /\ SubmitCompletes)
          /\ isDeeperRun => isDeeperRun'
          /\ (SubmitCompletes /\ ~SuccessfulResponse) => data' = data
          /\ data' # data => (SuccessfulResponse /\ SubmitCompletes)]_vars

\* a second submit has succeeded after a first one that failed: the data are
\* those of the deeper run, isDeeperRun is true and deeperLoading is false
C29_Witness ==
    /\ submits = 2
    /\ submitPc = "idle"
    /\ isDeeperRun
    /\ ~deeperLoading
    /\ toast = "success"
    /\ data.narrative = "deeper"
    /\ data.metrics.revenue_lift_pct = Fin(1902, 10)

\* C30: in basic mode, for a validated input with avg_treatment_value > 0
\* and no_show_rate < 100, the impact of Admin Overhead Burn is at least
\* 1281, recoverableMonthly (a twelfth of total_savings) is greater than 0
\* and payback_months is a finite integer between 1 and 16; savings of 0, and
\* with them a division by 0, are met in deeper mode only.
C30_BasicPaybackBounded ==
    \A c \in calls :
        Regular(input) =>
            /\ c.deeperData = Undefined =>
                   LET payback == c.result.projection_90_day.payback_months
                   IN  /\ Ge(Named(c.result.bottlenecks, "Admin Overhead Burn").impactDollars,
                             Num(1281))
                       /\ Gt(c.result.total_savings, Num(0))
                       /\ IsFinite(payback) /\ payback.d = 1
                       /\ Ge(payback, Num(1)) /\ Le(payback, Num(16))
            /\ c.result.total_savings = Num(0) => c.deeperData # Undefined

\* a basic run of a clinic of one staff member and more than one location
\* in which Admin Overhead Burn, 1281 dollars, is the only impact and the
\* payback is 16 months, next to a deeper run of it with savings of 0
C30_Witness ==
    /\ Regular(input)
    /\ \E c \in BasicCalls :
           /\ Named(c.result.bottlenecks, "Admin Overhead Burn").impactDollars = Num(1281)
           /\ c.result.total_savings = Num(769 * 12)
           /\ c.result.projection_90_day.payback_months = Num(16)
    /\ \E c \in DeeperCalls : c.result.total_savings = Num(0)

====
